---- MODULE Spec2Model ----
(* Transformation-request lifecycle of MusicShift: the storage layer        *)
(* (server/storage.ts) driven by the HTTP handlers of the server routes.    *)
(* Every await of the TypeScript code is a scheduling point: one action is  *)
(* one database operation or one synchronous stretch of file-system code.   *)
EXTENDS Naturals, Integers, Sequences, FiniteSets, TLC

\* ------------------------------------------------------------------ bounds
MaxCalls == 2        \* requests issued in one run
MaxArtifacts == 2    \* uploads in one run
MaxRequests == 3     \* requests of the artifact routes in one run

\* Display filenames of uploads, as token sequences ("." is the dot character).
Filenames == { <<"song", ".", "mp3">>, <<"demo">> }

\* Target genres requested: a recognised one, a different-case spelling of it
\* (not recognised), and the empty string.
Genres == { "rock", "Rock", "" }

\* Artifact ids a request may name; an id names no artifact until its upload.
FileIds == 1 .. MaxArtifacts

Ops == { "gen", "stream", "download", "post" }

NULL == "NULL"
NoPath == << >>
NoDate == 0

\* ------------------------------------------------------- pure path helpers
RECURSIVE LastDot(_, _)
LastDot(f, i) ==
  IF i = 0 THEN 0
  ELSE IF f[i] = "." THEN i ELSE LastDot(f, i - 1)

\* path.extname: from the last dot to the end; empty when there is no dot,
\* when the only dot leads the name, and for "..".
Extname(f) ==
  LET i == LastDot(f, Len(f)) IN
  IF i <= 1 \/ f = <<".", ".">> THEN << >>
  ELSE SubSeq(f, i, Len(f))

\* path.basename(f, ext) of a name without directories: f without the
\* suffix ext; empty when ext is all of f.
Basename(f, ext) ==
  IF ext # << >> /\ Len(ext) <= Len(f)
  THEN IF ext = f THEN << >>
       ELSE IF SubSeq(f, Len(f) - Len(ext) + 1, Len(f)) = ext
            THEN SubSeq(f, 1, Len(f) - Len(ext))
            ELSE f
  ELSE f

\* An output name that leaves the extension out.
TransformedFilePathNoExt(filename, genre) ==
  <<"transformations", "/">> \o Basename(filename, Extname(filename))
     \o <<"_", genre>>

\* `${basename(filename, ext)}_${genre}${ext}` inside TRANSFORMATIONS_DIR.
TransformedFilePath(filename, genre) ==
  <<"transformations", "/">> \o Basename(filename, Extname(filename))
     \o <<"_", genre>> \o Extname(filename)

\* The unique name multer gives an upload inside UPLOADS_DIR.
UploadSuffix(id) == <<"u1", "u2", "u3", "u4", "u5">>[id]
UploadPath(id, filename) == <<"uploads", "/", UploadSuffix(id), "-">> \o filename

\* A switch that also takes the capitalised spelling of rock.
FfmpegFilterAnyCase(genre) ==
  CASE genre \in { "rock", "Rock" } -> "rock"
    [] OTHER -> "default"

\* The switch on the target genre: the filter chain handed to ffmpeg.
FfmpegFilter(genre) ==
  CASE genre = "rock"       -> "rock"
    [] genre = "electronic" -> "electronic"
    [] genre = "jazz"       -> "jazz"
    [] genre = "classical"  -> "classical"
    [] genre = "pop"        -> "pop"
    [] genre = "hiphop"     -> "hiphop"
    [] genre = "reggae"     -> "reggae"
    [] genre = "country"    -> "country"
    [] OTHER                -> "default"

\* File contents: the bytes of upload id, or ffmpeg's output for a filter
\* applied to the bytes of upload id.
UploadBytes(id) == <<"upload", "none", UploadSuffix(id)>>
FfmpegBytes(filter, src) == <<"ffmpeg", filter, src[3]>>

\* ------------------------------------------------------------------- state
VARIABLES
  audioFiles,       \* table audio_files: sequence of rows, id = index
  transformations,  \* table transformations: sequence of rows, id = index
  fs,               \* the file system: path -> bytes, for the paths that exist
  calls,            \* the requests of this run, each with its position
  now               \* the clock read by new Date()

vars == <<audioFiles, transformations, fs, calls, now>>

CallIds == 1 .. MaxCalls

\* The upload requests of a run have slots of their own, after the others.
UploadIds == (MaxCalls + 1) .. (MaxCalls + MaxArtifacts)

IdleCall ==
  [ op |-> "none", pc |-> "idle", fileId |-> 0, genre |-> "none",
    filename |-> << >>,
    row |-> 0, input |-> NoPath, path |-> NoPath, ret |-> NoPath,
    hit |-> FALSE, hitRow |-> 0,
    mimetype |-> "none", detectedGenre |-> NULL, writes |-> 0,
    completedAt |-> NoDate, uncaught |-> "no",
    result |-> "none", http |-> 0, respStatus |-> "none",
    execs |-> 0, copies |-> 0, inserts |-> 0, before |-> {} ]

Init ==
  /\ audioFiles = << >>
  /\ transformations = << >>
  /\ fs = << >>
  /\ calls = [c \in CallIds \cup UploadIds |-> IdleCall]
  /\ now = 1

Exists(p) == p \in DOMAIN fs
WriteFile(p, bytes) == [q \in DOMAIN fs \cup {p} |-> IF q = p THEN bytes ELSE fs[q]]

\* ------------------------------------------------------------ storage layer
\* getAudioFileById: the row with that id, or none (findFirst gives undefined).
NoAudioFile ==
  [ filename |-> << >>, originalPath |-> NoPath, mimeType |-> "none",
    detectedGenre |-> NULL ]

getAudioFileById(id) ==
  IF id \in DOMAIN audioFiles THEN audioFiles[id] ELSE NoAudioFile

\* A lookup that forgets the genre condition.
CompletedMatchesAnyGenre(audioFileId, targetGenre) ==
  { r \in DOMAIN transformations :
      /\ transformations[r].audioFileId = audioFileId
      /\ transformations[r].status = "completed" }

\* A lookup that matches pending rows instead of completed ones.
CompletedMatchesPending(audioFileId, targetGenre) ==
  { r \in DOMAIN transformations :
      /\ transformations[r].audioFileId = audioFileId
      /\ transformations[r].targetGenre = targetGenre
      /\ transformations[r].status = "pending" }

\* The rows the cache lookup of generateTempTransformedFile may return.
CompletedMatches(audioFileId, targetGenre) ==
  { r \in DOMAIN transformations :
      /\ transformations[r].audioFileId = audioFileId
      /\ transformations[r].targetGenre = targetGenre
      /\ transformations[r].status = "completed" }

\* createTransformation: the inserted row.
NewTransformation(audioFileId, targetGenre) ==
  [ audioFileId |-> audioFileId, targetGenre |-> targetGenre,
    status |-> "pending", transformedPath |-> NoPath, completedAt |-> NoDate ]

\* An update that forgets to store the output path.
UpdatedRowNoPath(row, status, transformedPath, completedAt) ==
  [ row EXCEPT
      !.status = status,
      !.completedAt = IF status = "completed" THEN completedAt ELSE @ ]

\* An update that stamps completedAt whatever the status.
UpdatedRowAlwaysDate(row, status, transformedPath, completedAt) ==
  [ row EXCEPT
      !.status = status,
      !.transformedPath = IF transformedPath # NoPath THEN transformedPath ELSE @,
      !.completedAt = IF status = "completed" THEN completedAt ELSE now ]

\* An update whose set clause writes the status into target_genre as well.
UpdatedRowOverGenre(row, status, transformedPath, completedAt) ==
  [ row EXCEPT
      !.status = status,
      !.targetGenre = status,
      !.transformedPath = IF transformedPath # NoPath THEN transformedPath ELSE @,
      !.completedAt = IF status = "completed" THEN completedAt ELSE @ ]

\* updateTransformationStatus, lines 107-120: the row after the update has
\* committed. completedAt is the value `updates` carries: the clock as it was
\* read at line 114, before the await of the update.
UpdatedRow(row, status, transformedPath, completedAt) ==
  [ row EXCEPT
      !.status = status,
      !.transformedPath = IF transformedPath # NoPath THEN transformedPath ELSE @,
      !.completedAt = IF status = "completed" THEN completedAt ELSE @ ]

\* An update whose WHERE clause selects by artifact instead of by row id.
updateTransformationStatusByArtifact(id, status, transformedPath, completedAt) ==
  IF id \in DOMAIN transformations
  THEN [ r \in DOMAIN transformations |->
           IF transformations[r].audioFileId = transformations[id].audioFileId
           THEN UpdatedRow(transformations[r], status, transformedPath, completedAt)
           ELSE transformations[r] ]
  ELSE transformations

updateTransformationStatus(id, status, transformedPath, completedAt) ==
  IF id \in DOMAIN transformations
  THEN [transformations EXCEPT ![id] = UpdatedRow(@, status, transformedPath, completedAt)]
  ELSE transformations

\* new Date() at line 114, read when updateTransformationStatus is called
\* with status completed, in the synchronous stretch that ends at its await.
\* Time is counted in the milliseconds at which the clock was read: the
\* first read gives the first, a later read the millisecond of the read
\* before it or the next one.
Tick ==
  IF \A c \in DOMAIN calls : calls[c].completedAt = NoDate
  THEN { now }
  ELSE { now, now + 1 }

\* ---------------------------------------------------------------- requests
Done(c) == calls[c].pc = "done"
EndedCalls == { d \in CallIds : Done(d) }

\* POST /api/uploads, the middleware upload.single: multer writes the file
\* under its unique name and hands the request on to the handler, which
\* runs up to its await of storeAudioFile. No row exists yet.
Upload(u, filename) ==
  /\ calls[u].pc = "idle"
  /\ \A d \in UploadIds : d < u => calls[d].pc # "idle"
  /\ LET path == UploadPath(u - MaxCalls, filename) IN
     /\ fs' = WriteFile(path, UploadBytes(u - MaxCalls))
     /\ calls' = [calls EXCEPT ![u] =
          [ IdleCall EXCEPT !.op = "upload", !.pc = "u_store",
              !.filename = filename, !.input = path, !.mimetype = "audio/mpeg" ]]
  /\ UNCHANGED <<audioFiles, transformations, now>>

\* storeAudioFile, storage.ts 30-48, and the answer of the handler: the
\* insert commits, the row carries the display name and the path of the
\* file multer wrote; 201.
StoreAudioFile(u) ==
  /\ calls[u].pc = "u_store"
  /\ audioFiles' = Append(audioFiles,
       [ filename |-> calls[u].filename, originalPath |-> calls[u].input,
         mimeType |-> calls[u].mimetype, detectedGenre |-> NULL ])
  /\ calls' = [calls EXCEPT ![u] =
       [@ EXCEPT !.pc = "done", !.fileId = Len(audioFiles) + 1,
                 !.http = 201, !.result = "ok"]]
  /\ UNCHANGED <<transformations, fs, now>>

\* The stream and download handlers answer 400 to a missing or empty genre,
\* if (!genre), before their first await; the zod schema of POST
\* /api/transformations, targetGenre: z.string(), lets the empty string pass.
GenreRequired(op, genre) == op \in { "stream", "download" } /\ genre = ""

\* A request arrives: a direct call of generateTempTransformedFile ("gen"),
\* GET /api/transformed/:id ("stream"), GET /api/download/:id ("download") or
\* POST /api/transformations ("post").
StartCall(c, op, fileId, genre) ==
  /\ calls[c].pc = "idle"
  /\ \A d \in CallIds : d < c => calls[d].pc # "idle"
  /\ calls' = [calls EXCEPT ![c] =
       IF GenreRequired(op, genre)
       THEN [ IdleCall EXCEPT !.op = op, !.fileId = fileId, !.genre = genre,
                !.pc = "done", !.http = 400, !.result = "invalid",
                !.before = EndedCalls ]
       ELSE [ IdleCall EXCEPT !.op = op, !.fileId = fileId, !.genre = genre,
                !.pc = IF op = "gen" THEN "g_get" ELSE "h_get",
                !.before = EndedCalls ]]
  /\ UNCHANGED <<audioFiles, transformations, fs, now>>

\* The handlers' own existence check: 404 when the artifact is missing.
HandlerGetAudioFile(c) ==
  /\ calls[c].pc = "h_get"
  /\ calls' = [calls EXCEPT ![c] =
       IF getAudioFileById(calls[c].fileId) = NoAudioFile
       THEN [@ EXCEPT !.pc = "done", !.http = 404, !.result = "notfound"]
       ELSE [@ EXCEPT !.pc = IF calls[c].op = "post" THEN "p_create" ELSE "g_get"]]
  /\ UNCHANGED <<audioFiles, transformations, fs, now>>

\* How a finished generateTempTransformedFile shows at its caller: a direct
\* caller has the result; the stream and download handlers answer 500 from
\* their catch when it threw, and with a path they set the headers and
\* create the read stream, which opens the file in a later turn of the loop.
GenReturn(call, result, path) ==
  [ call EXCEPT !.result = result, !.ret = path,
      !.pc = IF call.op # "gen" /\ result = "ok" THEN "s_open" ELSE "done",
      !.http = IF call.op = "gen" \/ result = "ok" THEN 0 ELSE 500 ]

\* An 'error' event of a stream nobody listens to is an uncaught exception.
\* The response of that request is never written and never ended. What the
\* process does then is decided by its entry point: without a handler for
\* uncaught exceptions Node exits, no request in flight goes on and none is
\* taken; with one the other requests go on.
Exited == \E c \in DOMAIN calls : calls[c].uncaught = "exit"

Uncaught(c, exits) ==
  [ d \in DOMAIN calls |->
      IF d = c
      THEN [calls[d] EXCEPT !.pc = "done",
                            !.uncaught = IF exits THEN "exit" ELSE "handled"]
      ELSE IF exits /\ calls[d].pc # "done" THEN [calls[d] EXCEPT !.pc = "exited"]
      ELSE calls[d] ]

\* fs.createReadStream(transformedFilePath).pipe(res), part_001 243-244 and
\* 292-293: the stream opens the file; the answer, 200, goes out with the
\* first bytes. When the file cannot be opened the stream emits 'error'.
StreamOpen(c) ==
  /\ calls[c].pc = "s_open"
  /\ IF Exists(calls[c].ret)
     THEN calls' = [calls EXCEPT ![c] = [@ EXCEPT !.pc = "done", !.http = 200]]
     ELSE \E exits \in BOOLEAN : calls' = Uncaught(c, exits)
  /\ UNCHANGED <<audioFiles, transformations, fs, now>>

\* An output path that also carries the route the request came by.
GenMissPerRoute(call) ==
  [ call EXCEPT !.pc = "g_create",
      !.path = TransformedFilePath(getAudioFileById(call.fileId).filename, call.genre)
                 \o <<"-", call.op>> ]

\* Lines 260-270, after a miss: the output path, a local of the call.
GenMiss(call) ==
  [ call EXCEPT !.pc = "g_create",
      !.path = TransformedFilePath(getAudioFileById(call.fileId).filename, call.genre) ]

\* An existence check that lets a missing artifact through.
GenGetAudioFileNoCheck(c) ==
  /\ calls[c].pc = "g_get"
  /\ calls' = [calls EXCEPT ![c] = [@ EXCEPT !.pc = "g_lookup"]]
  /\ UNCHANGED <<audioFiles, transformations, fs, now>>

\* generateTempTransformedFile, lines 240-243: throws when the artifact is missing.
GenGetAudioFile(c) ==
  /\ calls[c].pc = "g_get"
  /\ calls' = [calls EXCEPT ![c] =
       IF getAudioFileById(calls[c].fileId) = NoAudioFile
       THEN GenReturn(@, "notfound", NoPath)
       ELSE [@ EXCEPT !.pc = "g_lookup"]]
  /\ UNCHANGED <<audioFiles, transformations, fs, now>>

\* A lookup whose hit branch lacks the return and falls through to the insert.
GenLookupFallsThrough(c) ==
  /\ calls[c].pc = "g_lookup"
  /\ LET m == CompletedMatches(calls[c].fileId, calls[c].genre) IN
     IF m = {}
     THEN calls' = [calls EXCEPT ![c] = GenMiss(@)]
     ELSE \E r \in m :
            calls' = [calls EXCEPT ![c] =
              GenMiss([@ EXCEPT !.hit = TRUE, !.hitRow = r])]
  /\ UNCHANGED <<audioFiles, transformations, fs, now>>

\* Lines 245-270: the cache lookup. findFirst has no ORDER BY: any matching row.
GenLookup(c) ==
  /\ calls[c].pc = "g_lookup"
  /\ LET m == CompletedMatches(calls[c].fileId, calls[c].genre) IN
     IF m = {}
     THEN calls' = [calls EXCEPT ![c] = GenMiss(@)]
     ELSE \E r \in m :
            calls' = [calls EXCEPT ![c] =
              IF transformations[r].transformedPath # NoPath
              THEN GenReturn([@ EXCEPT !.hit = TRUE, !.hitRow = r], "ok",
                             transformations[r].transformedPath)
              ELSE GenMiss(@)]
  /\ UNCHANGED <<audioFiles, transformations, fs, now>>

\* Lines 272-276: createTransformation inserts the pending row.
GenCreate(c) ==
  /\ calls[c].pc = "g_create"
  /\ transformations' =
       Append(transformations, NewTransformation(calls[c].fileId, calls[c].genre))
  /\ calls' = [calls EXCEPT ![c] =
       [@ EXCEPT !.pc = "g_exec", !.row = Len(transformations) + 1,
                 !.inserts = @ + 1]]
  /\ UNCHANGED <<audioFiles, fs, now>>

\* What execSync(ffmpegCommand) can do: exit 0 with the output written, or throw.
FfmpegOutcomes == { "ok", "fail" }

\* A catch block that logs the ffmpeg error and copies nothing.
ExecNoCopy(outcome, filter, src, dst) ==
  IF outcome = "ok"
  THEN WriteFile(dst, FfmpegBytes(filter, fs[src]))
  ELSE fs

\* A catch block that moves the source to the output path (fs.renameSync).
ExecOrRename(outcome, filter, src, dst) ==
  IF outcome = "ok"
  THEN WriteFile(dst, FfmpegBytes(filter, fs[src]))
  ELSE [q \in (DOMAIN fs \ {src}) \cup {dst} |-> IF q = dst THEN fs[src] ELSE fs[q]]

\* The try/catch around execSync: ffmpeg's output at dst, or, when ffmpeg
\* throws, fs.copyFileSync(src, dst).
ExecOrCopy(outcome, filter, src, dst) ==
  IF outcome = "ok"
  THEN WriteFile(dst, FfmpegBytes(filter, fs[src]))
  ELSE WriteFile(dst, fs[src])

\* Lines 278-354: only when nothing exists at the output path, run ffmpeg
\* with the genre's filter and fall back to a copy of the source; then call
\* updateTransformationStatus, which reads the clock and awaits its update.
GenExec(c) ==
  /\ calls[c].pc = "g_exec"
  /\ LET src == getAudioFileById(calls[c].fileId).originalPath
         dst == calls[c].path
     IN
     IF Exists(dst)
     THEN /\ \E t \in Tick :
               /\ now' = t
               /\ calls' = [calls EXCEPT ![c] =
                    [@ EXCEPT !.pc = "g_update", !.completedAt = t]]
          /\ fs' = fs
     ELSE IF ~Exists(src)
     THEN \* ffmpeg fails on the missing input and copyFileSync throws
          /\ calls' = [calls EXCEPT ![c] =
               GenReturn([@ EXCEPT !.execs = @ + 1], "error", NoPath)]
          /\ fs' = fs
          /\ now' = now
     ELSE \E outcome \in FfmpegOutcomes, t \in Tick :
          /\ fs' = ExecOrCopy(outcome, FfmpegFilter(calls[c].genre), src, dst)
          /\ now' = t
          /\ calls' = [calls EXCEPT ![c] =
               [@ EXCEPT !.pc = "g_update", !.execs = @ + 1, !.completedAt = t,
                         !.copies = IF outcome = "ok" THEN @ ELSE @ + 1]]
  /\ UNCHANGED <<audioFiles, transformations>>

\* A return that does not wait for the status update.
GenUpdateSkipped(c) ==
  /\ calls[c].pc = "g_update"
  /\ calls' = [calls EXCEPT ![c] = GenReturn(@, "ok", calls[c].path)]
  /\ UNCHANGED <<audioFiles, transformations, fs, now>>

\* Lines 349-356: the update commits, the row is completed with the output
\* path and the date read before; the path is returned.
GenUpdate(c) ==
  /\ calls[c].pc = "g_update"
  /\ transformations' =
       updateTransformationStatus(calls[c].row, "completed", calls[c].path,
                                  calls[c].completedAt)
  /\ calls' = [calls EXCEPT ![c] = GenReturn(@, "ok", calls[c].path)]
  /\ UNCHANGED <<audioFiles, fs, now>>

\* POST /api/transformations, lines 188-201: insert the row, start
\* processTransformation without awaiting it, answer 201 with the row's status.
PostCreate(c) ==
  /\ calls[c].pc = "p_create"
  /\ LET row == NewTransformation(calls[c].fileId, calls[c].genre) IN
     /\ transformations' = Append(transformations, row)
     /\ calls' = [calls EXCEPT ![c] =
          [@ EXCEPT !.pc = "p_get", !.row = Len(transformations) + 1,
                    !.inserts = @ + 1, !.http = 201, !.respStatus = row.status]]
  /\ UNCHANGED <<audioFiles, fs, now>>

\* processTransformation, lines 134-137: read the row with its artifact.
ProcessGet(c) ==
  /\ calls[c].pc = "p_get"
  /\ calls' = [calls EXCEPT ![c] =
       IF /\ calls[c].row \in DOMAIN transformations
          /\ getAudioFileById(transformations[calls[c].row].audioFileId) # NoAudioFile
       THEN [@ EXCEPT !.pc = "p_processing"]
       ELSE [@ EXCEPT !.pc = "p_failed"]]
  /\ UNCHANGED <<audioFiles, transformations, fs, now>>

\* Line 140: status processing.
ProcessMarkProcessing(c) ==
  /\ calls[c].pc = "p_processing"
  /\ transformations' =
       updateTransformationStatus(calls[c].row, "processing", NoPath, NoDate)
  /\ calls' = [calls EXCEPT ![c] = [@ EXCEPT !.pc = "p_exec"]]
  /\ UNCHANGED <<audioFiles, fs, now>>

\* Lines 142-225: always run ffmpeg (-y overwrites), copy the source when it
\* throws; then call updateTransformationStatus, which reads the clock and
\* awaits its update.
ProcessExec(c) ==
  /\ calls[c].pc = "p_exec"
  /\ LET t == transformations[calls[c].row]
         audioFile == getAudioFileById(t.audioFileId)
         src == audioFile.originalPath
         dst == TransformedFilePath(audioFile.filename, t.targetGenre)
     IN
     IF ~Exists(src)
     THEN /\ calls' = [calls EXCEPT ![c] =
               [@ EXCEPT !.pc = "p_failed", !.execs = @ + 1]]
          /\ fs' = fs
          /\ now' = now
     ELSE \E outcome \in FfmpegOutcomes, d \in Tick :
          /\ fs' = ExecOrCopy(outcome, FfmpegFilter(t.targetGenre), src, dst)
          /\ now' = d
          /\ calls' = [calls EXCEPT ![c] =
               [@ EXCEPT !.pc = "p_update", !.path = dst, !.execs = @ + 1,
                         !.completedAt = d,
                         !.copies = IF outcome = "ok" THEN @ ELSE @ + 1]]
  /\ UNCHANGED <<audioFiles, transformations>>

\* Lines 221-228: the update commits, status completed with the output path
\* and the date read before.
ProcessUpdate(c) ==
  /\ calls[c].pc = "p_update"
  /\ transformations' =
       updateTransformationStatus(calls[c].row, "completed", calls[c].path,
                                  calls[c].completedAt)
  /\ calls' = [calls EXCEPT ![c] =
       [@ EXCEPT !.pc = "done", !.result = "ok", !.ret = calls[c].path]]
  /\ UNCHANGED <<audioFiles, fs, now>>

Next ==
  \/ \E u \in UploadIds, f \in Filenames : Upload(u, f)
  \/ \E u \in UploadIds : StoreAudioFile(u)
  \/ \E c \in CallIds, op \in Ops, id \in FileIds, g \in Genres :
       StartCall(c, op, id, g)
  \/ \E c \in CallIds : HandlerGetAudioFile(c)
  \/ \E c \in CallIds : GenGetAudioFile(c)
  \/ \E c \in CallIds : GenLookup(c)
  \/ \E c \in CallIds : GenCreate(c)
  \/ \E c \in CallIds : GenExec(c)
  \/ \E c \in CallIds : GenUpdate(c)
  \/ \E c \in CallIds : StreamOpen(c)
  \/ \E c \in CallIds : PostCreate(c)
  \/ \E c \in CallIds : ProcessGet(c)
  \/ \E c \in CallIds : ProcessMarkProcessing(c)
  \/ \E c \in CallIds : ProcessExec(c)
  \/ \E c \in CallIds : ProcessUpdate(c)

Spec == Init /\ [][Next]_vars

\* ------------------------------------------------- storage failures
\* A storage operation outside the ffmpeg step can throw: copyFileSync (disk
\* full, output directory not writable) and the ledger writes (database
\* error). A write that throws has changed nothing.

\* The insert of storeAudioFile throws: lines 43-46 rethrow, the catch of
\* the handler answers 500; the file multer wrote stays, without a row.
StoreAudioFileFails(u) ==
  /\ calls[u].pc = "u_store"
  /\ calls' = [calls EXCEPT ![u] =
       [@ EXCEPT !.pc = "done", !.http = 500, !.result = "error"]]
  /\ UNCHANGED <<audioFiles, transformations, fs, now>>

\* createTransformation throws inside generateTempTransformedFile: lines
\* 77-80 and 357-360 rethrow.
GenCreateFails(c) ==
  /\ calls[c].pc = "g_create"
  /\ calls' = [calls EXCEPT ![c] = GenReturn(@, "error", NoPath)]
  /\ UNCHANGED <<audioFiles, transformations, fs, now>>

\* ffmpeg throws and copyFileSync throws too: the catch at 357-360 rethrows,
\* the row stays as inserted.
GenExecCopyFails(c) ==
  /\ calls[c].pc = "g_exec"
  /\ ~Exists(calls[c].path)
  /\ calls' = [calls EXCEPT ![c] =
       GenReturn([@ EXCEPT !.execs = @ + 1], "error", NoPath)]
  /\ UNCHANGED <<audioFiles, transformations, fs, now>>

\* updateTransformationStatus(completed) throws inside generateTempTransformedFile.
GenUpdateFails(c) ==
  /\ calls[c].pc = "g_update"
  /\ calls' = [calls EXCEPT ![c] = GenReturn(@, "error", NoPath)]
  /\ UNCHANGED <<audioFiles, transformations, fs, now>>

\* createTransformation throws inside POST /api/transformations: 500.
PostCreateFails(c) ==
  /\ calls[c].pc = "p_create"
  /\ calls' = [calls EXCEPT ![c] =
       [@ EXCEPT !.pc = "done", !.http = 500, !.result = "error"]]
  /\ UNCHANGED <<audioFiles, transformations, fs, now>>

\* updateTransformationStatus(processing) throws: to the catch at 229.
ProcessMarkProcessingFails(c) ==
  /\ calls[c].pc = "p_processing"
  /\ calls' = [calls EXCEPT ![c] = [@ EXCEPT !.pc = "p_failed"]]
  /\ UNCHANGED <<audioFiles, transformations, fs, now>>

\* ffmpeg throws and copyFileSync throws too: to the catch at 229.
ProcessExecCopyFails(c) ==
  /\ calls[c].pc = "p_exec"
  /\ calls' = [calls EXCEPT ![c] = [@ EXCEPT !.pc = "p_failed", !.execs = @ + 1]]
  /\ UNCHANGED <<audioFiles, transformations, fs, now>>

\* updateTransformationStatus(completed) throws: to the catch at 229.
ProcessUpdateFails(c) ==
  /\ calls[c].pc = "p_update"
  /\ calls' = [calls EXCEPT ![c] = [@ EXCEPT !.pc = "p_failed"]]
  /\ UNCHANGED <<audioFiles, transformations, fs, now>>

\* Lines 229-234: the catch of processTransformation marks the row failed
\* and rethrows (to the .catch(console.error) of the handler).
ProcessCatch(c) ==
  /\ calls[c].pc = "p_failed"
  /\ transformations' =
       updateTransformationStatus(calls[c].row, "failed", NoPath, NoDate)
  /\ calls' = [calls EXCEPT ![c] = [@ EXCEPT !.pc = "done", !.result = "error"]]
  /\ UNCHANGED <<audioFiles, fs, now>>

\* The update to failed throws as well: the row stays as it was.
ProcessCatchFails(c) ==
  /\ calls[c].pc = "p_failed"
  /\ calls' = [calls EXCEPT ![c] = [@ EXCEPT !.pc = "done", !.result = "error"]]
  /\ UNCHANGED <<audioFiles, transformations, fs, now>>

StorageFailure ==
  \/ \E u \in UploadIds : StoreAudioFileFails(u)
  \/ \E c \in CallIds : GenCreateFails(c)
  \/ \E c \in CallIds : GenExecCopyFails(c)
  \/ \E c \in CallIds : GenUpdateFails(c)
  \/ \E c \in CallIds : PostCreateFails(c)
  \/ \E c \in CallIds : ProcessMarkProcessingFails(c)
  \/ \E c \in CallIds : ProcessExecCopyFails(c)
  \/ \E c \in CallIds : ProcessUpdateFails(c)
  \/ \E c \in CallIds : ProcessCatch(c)
  \/ \E c \in CallIds : ProcessCatchFails(c)

NextWithFailures == Next \/ StorageFailure

\* The program in an environment whose storage can fail.
SpecStorageFailure == Init /\ [][NextWithFailures]_vars

\* ----------------------------------------------------------------- fairness
\* The event loop runs every continuation that is ready: a request that can
\* take its next step takes it, with the storage operation of that step
\* succeeding or throwing. execSync blocks until ffmpeg has returned.
CallStep(c) ==
  \/ HandlerGetAudioFile(c)
  \/ GenGetAudioFile(c) \/ GenLookup(c) \/ GenCreate(c)
  \/ GenExec(c) \/ GenUpdate(c) \/ StreamOpen(c)
  \/ PostCreate(c) \/ ProcessGet(c) \/ ProcessMarkProcessing(c)
  \/ ProcessExec(c) \/ ProcessUpdate(c)

FailingStep(c) ==
  \/ GenCreateFails(c) \/ GenExecCopyFails(c) \/ GenUpdateFails(c)
  \/ PostCreateFails(c) \/ ProcessMarkProcessingFails(c)
  \/ ProcessExecCopyFails(c) \/ ProcessUpdateFails(c)
  \/ ProcessCatch(c) \/ ProcessCatchFails(c)

\* Every request runs to its end, storage reliable.
FairSpec ==
  /\ Init /\ [][Next]_vars
  /\ \A c \in CallIds : WF_vars(CallStep(c))
  /\ \A u \in UploadIds : WF_vars(StoreAudioFile(u))

\* Every request runs to its end in an environment whose storage can fail.
FairSpecStorageFailure ==
  /\ Init /\ [][NextWithFailures]_vars
  /\ \A c \in CallIds : WF_vars(CallStep(c) \/ FailingStep(c))
  /\ \A u \in UploadIds : WF_vars(StoreAudioFile(u) \/ StoreAudioFileFails(u))

\* ------------------------------------------- ffmpeg without an output file
\* execSync returns when ffmpeg exits 0, whether or not ffmpeg has left a
\* file at the output path; the code does not look at the path afterwards.

\* generateTempTransformedFile, lines 337-340: ffmpeg exits 0 and has written
\* nothing; the catch with the fallback copy is not entered.
GenExecNoOutput(c) ==
  /\ calls[c].pc = "g_exec"
  /\ ~Exists(calls[c].path)
  /\ Exists(getAudioFileById(calls[c].fileId).originalPath)
  /\ \E t \in Tick :
       /\ now' = t
       /\ calls' = [calls EXCEPT ![c] =
            [@ EXCEPT !.pc = "g_update", !.execs = @ + 1, !.completedAt = t]]
  /\ UNCHANGED <<audioFiles, transformations, fs>>

\* processTransformation, lines 208-211: the same.
ProcessExecNoOutput(c) ==
  /\ calls[c].pc = "p_exec"
  /\ LET t == transformations[calls[c].row]
         audioFile == getAudioFileById(t.audioFileId)
     IN
     /\ Exists(audioFile.originalPath)
     /\ \E d \in Tick :
          /\ now' = d
          /\ calls' = [calls EXCEPT ![c] =
               [@ EXCEPT !.pc = "p_update", !.execs = @ + 1, !.completedAt = d,
                         !.path = TransformedFilePath(audioFile.filename, t.targetGenre)]]
  /\ UNCHANGED <<audioFiles, transformations, fs>>

NextNoOutput ==
  \/ Next
  \/ \E c \in CallIds : GenExecNoOutput(c)
  \/ \E c \in CallIds : ProcessExecNoOutput(c)

\* The program with an ffmpeg that can exit 0 without an output file.
SpecNoOutput == Init /\ [][NextNoOutput]_vars

\* ------------------------------------------- the convert routes (routes.ts)
\* The server of server/routes.ts keeps no ledger: POST /api/upload stores a
\* file, POST /api/convert transforms a stored file and streams the result.

\* The name multer gives the stored file: `${uniqueSuffix}-${originalname}`.
StoredName(id, filename) == <<UploadSuffix(id), "-">> \o filename
StoredNames == { StoredName(id, f) : id \in 1 .. MaxArtifacts, f \in Filenames }

\* POST /api/upload: multer writes the file under a name made from
\* Date.now(); the answer carries that name.
ConvertUpload(filename) ==
  /\ now <= MaxArtifacts
  /\ ~Exited
  /\ fs' = WriteFile(<<"uploads", "/">> \o StoredName(now, filename), UploadBytes(now))
  /\ now' = now + 1
  /\ UNCHANGED <<audioFiles, transformations, calls>>

\* A switch whose default branch builds the default filter chain.
ConvertCommandWithDefault(targetGenre) ==
  IF targetGenre \in
       { "rock", "electronic", "jazz", "classical", "pop", "hiphop", "reggae", "country" }
  THEN targetGenre
  ELSE "default"

\* The switch of the convert handler: the filter chain of the eight genres;
\* the default branch returns 400 'Invalid target genre'.
ConvertCommand(targetGenre) ==
  IF targetGenre \in
       { "rock", "electronic", "jazz", "classical", "pop", "hiphop", "reggae", "country" }
  THEN targetGenre
  ELSE "invalid"

\* A catch block that copies the source to the output and goes on to stream it.
ConvertExecWithFallback(outcome, filter, src, dst) ==
  IF outcome = "ok"
  THEN [ fs |-> WriteFile(dst, FfmpegBytes(filter, fs[src])), http |-> 0 ]
  ELSE [ fs |-> WriteFile(dst, fs[src]), http |-> 0 ]

\* The try/catch around execSync in the convert handler: ffmpeg's output at
\* dst and no answer yet (the stream follows), or 500 'Failed to process
\* audio'.
ConvertExec(outcome, filter, src, dst) ==
  IF outcome = "ok"
  THEN [ fs |-> WriteFile(dst, FfmpegBytes(filter, fs[src])), http |-> 0 ]
  ELSE [ fs |-> fs, http |-> 500 ]

\* POST /api/convert, lines 73-140: one synchronous stretch, from the parse
\* of the body to the creation of the read stream, which opens the file in a
\* later turn of the loop.
Convert(c, filename, targetGenre, outcome) ==
  /\ calls[c].pc = "idle"
  /\ \A d \in CallIds : d < c => calls[d].pc # "idle"
  /\ LET inputPath == <<"uploads", "/">> \o filename
         outputPath == TransformedFilePath(filename, targetGenre)
         command == ConvertCommand(targetGenre)
         call == [ IdleCall EXCEPT !.op = "convert", !.genre = targetGenre,
                     !.input = inputPath, !.before = EndedCalls ]
     IN
     IF ~Exists(inputPath)
     THEN /\ calls' = [calls EXCEPT ![c] =
               [call EXCEPT !.pc = "done", !.http = 404, !.result = "notfound"]]
          /\ fs' = fs
     ELSE IF command = "invalid"
     THEN /\ calls' = [calls EXCEPT ![c] =
               [call EXCEPT !.pc = "done", !.path = outputPath,
                            !.http = 400, !.result = "invalid"]]
          /\ fs' = fs
     ELSE LET r == ConvertExec(outcome, command, inputPath, outputPath) IN
          /\ fs' = r.fs
          /\ calls' = [calls EXCEPT ![c] =
               [call EXCEPT !.path = outputPath, !.execs = 1, !.http = r.http,
                            !.pc = IF r.http = 0 THEN "c_stream" ELSE "done",
                            !.result = IF r.http = 0 THEN "none" ELSE "error"]]
  /\ UNCHANGED <<audioFiles, transformations, now>>

Unlink(f, p) == [q \in DOMAIN f \ {p} |-> f[q]]

\* A clean-up that removes the output file only.
CleanUpOutputOnly(inputPath, outputPath) ==
  Unlink(fs, outputPath)

\* Lines 143-150: unlinkSync(inputPath) then unlinkSync(outputPath) inside one
\* try: when the first throws (the file is gone) the second does not run.
CleanUp(inputPath, outputPath) ==
  IF ~Exists(inputPath) THEN fs
  ELSE Unlink(Unlink(fs, inputPath), outputPath)

\* Lines 138-139: the stream opens the output file; the answer, 200, goes
\* out with the first bytes. The open file stays readable when another
\* request unlinks its path.
ConvertStreamOpen(c) ==
  /\ calls[c].pc = "c_stream"
  /\ Exists(calls[c].path)
  /\ calls' = [calls EXCEPT ![c] = [@ EXCEPT !.pc = "c_read", !.http = 200]]
  /\ UNCHANGED <<audioFiles, transformations, fs, now>>

\* The stream has sent the file: 'end' fires and the handler cleans up.
ConvertStreamEnd(c) ==
  /\ calls[c].pc = "c_read"
  /\ fs' = CleanUp(calls[c].input, calls[c].path)
  /\ calls' = [calls EXCEPT ![c] =
       [@ EXCEPT !.pc = "done", !.result = "ok", !.ret = calls[c].path]]
  /\ UNCHANGED <<audioFiles, transformations, now>>

\* The output file was unlinked by another request before the stream opened
\* it: the stream emits 'error', which nobody listens to; no answer is
\* written, 'end' never fires, nothing is cleaned up.
ConvertStreamError(c) ==
  /\ calls[c].pc = "c_stream"
  /\ ~Exists(calls[c].path)
  /\ \E exits \in BOOLEAN :
       calls' = [Uncaught(c, exits) EXCEPT ![c] = [@ EXCEPT !.result = "error"]]
  /\ UNCHANGED <<audioFiles, transformations, fs, now>>

NextConvert ==
  \/ \E f \in Filenames : ConvertUpload(f)
  \/ \E c \in CallIds, f \in StoredNames, g \in Genres, o \in FfmpegOutcomes :
       Convert(c, f, g, o)
  \/ \E c \in CallIds : ConvertStreamOpen(c)
  \/ \E c \in CallIds : ConvertStreamEnd(c)
  \/ \E c \in CallIds : ConvertStreamError(c)

\* The server of server/routes.ts.
SpecConvert == Init /\ [][NextConvert]_vars

\* ------------------------------------------------- execSync and the event loop
\* The execution step taken apart: the synchronous stretch begins with the
\* existence test and the call of execSync, and ends when ffmpeg has
\* returned and the catch, if entered, has copied. execSync blocks the one
\* JavaScript thread of the server process: until it returns no handler and
\* no continuation of any request runs.
InFfmpeg(c) == calls[c].pc \in { "g_ffmpeg", "p_ffmpeg" }

\* An exec that does not block (child_process.exec with a callback).
BlockedNever == FALSE

\* The thread is inside execSync for some request.
Blocked == \E c \in CallIds : InFfmpeg(c)

\* generateTempTransformedFile, lines 278-339: existsSync, then execSync is called.
GenExecBegin(c) ==
  /\ calls[c].pc = "g_exec"
  /\ IF Exists(calls[c].path)
     THEN \E t \in Tick :
            /\ now' = t
            /\ calls' = [calls EXCEPT ![c] =
                 [@ EXCEPT !.pc = "g_update", !.completedAt = t]]
     ELSE /\ calls' = [calls EXCEPT ![c] =
               [@ EXCEPT !.pc = "g_ffmpeg", !.execs = @ + 1]]
          /\ now' = now
  /\ UNCHANGED <<audioFiles, transformations, fs>>

\* Lines 339-347: ffmpeg has returned; the catch copies when it threw.
GenExecEnd(c) ==
  /\ calls[c].pc = "g_ffmpeg"
  /\ LET src == getAudioFileById(calls[c].fileId).originalPath
         dst == calls[c].path
     IN
     \E outcome \in FfmpegOutcomes, t \in Tick :
       /\ Exists(src)
       /\ fs' = ExecOrCopy(outcome, FfmpegFilter(calls[c].genre), src, dst)
       /\ now' = t
       /\ calls' = [calls EXCEPT ![c] =
            [@ EXCEPT !.pc = "g_update", !.completedAt = t,
                      !.copies = IF outcome = "ok" THEN @ ELSE @ + 1]]
  /\ UNCHANGED <<audioFiles, transformations>>

\* processTransformation, lines 142-210: the path, the command, execSync is called.
ProcessExecBegin(c) ==
  /\ calls[c].pc = "p_exec"
  /\ LET t == transformations[calls[c].row]
         audioFile == getAudioFileById(t.audioFileId)
     IN
     calls' = [calls EXCEPT ![c] =
       [@ EXCEPT !.pc = "p_ffmpeg", !.execs = @ + 1,
                 !.path = TransformedFilePath(audioFile.filename, t.targetGenre)]]
  /\ UNCHANGED <<audioFiles, transformations, fs, now>>

\* Lines 210-219: ffmpeg has returned; the catch copies when it threw.
ProcessExecEnd(c) ==
  /\ calls[c].pc = "p_ffmpeg"
  /\ LET t == transformations[calls[c].row]
         src == getAudioFileById(t.audioFileId).originalPath
     IN
     \E outcome \in FfmpegOutcomes, d \in Tick :
       /\ Exists(src)
       /\ fs' = ExecOrCopy(outcome, FfmpegFilter(t.targetGenre), src, calls[c].path)
       /\ now' = d
       /\ calls' = [calls EXCEPT ![c] =
            [@ EXCEPT !.pc = "p_update", !.completedAt = d,
                      !.copies = IF outcome = "ok" THEN @ ELSE @ + 1]]
  /\ UNCHANGED <<audioFiles, transformations>>

NextEventLoop ==
  \/ \E u \in UploadIds, f \in Filenames : ~Blocked /\ Upload(u, f)
  \/ \E u \in UploadIds : ~Blocked /\ StoreAudioFile(u)
  \/ \E c \in CallIds, op \in Ops, id \in FileIds, g \in Genres :
       ~Blocked /\ StartCall(c, op, id, g)
  \/ \E c \in CallIds : ~Blocked /\ HandlerGetAudioFile(c)
  \/ \E c \in CallIds : ~Blocked /\ GenGetAudioFile(c)
  \/ \E c \in CallIds : ~Blocked /\ GenLookup(c)
  \/ \E c \in CallIds : ~Blocked /\ GenCreate(c)
  \/ \E c \in CallIds : ~Blocked /\ GenExecBegin(c)
  \/ \E c \in CallIds : GenExecEnd(c)
  \/ \E c \in CallIds : ~Blocked /\ GenUpdate(c)
  \/ \E c \in CallIds : ~Blocked /\ StreamOpen(c)
  \/ \E c \in CallIds : ~Blocked /\ PostCreate(c)
  \/ \E c \in CallIds : ~Blocked /\ ProcessGet(c)
  \/ \E c \in CallIds : ~Blocked /\ ProcessMarkProcessing(c)
  \/ \E c \in CallIds : ~Blocked /\ ProcessExecBegin(c)
  \/ \E c \in CallIds : ProcessExecEnd(c)
  \/ \E c \in CallIds : ~Blocked /\ ProcessUpdate(c)

\* The program with the ffmpeg run as a stretch of time.
SpecEventLoop == Init /\ [][NextEventLoop]_vars

\* ------------------------------------------------------ the artifact routes
\* POST /api/uploads and GET /api/uploads/:id, with the declared content type
\* of the upload and the lazy genre detection of the read.
ArtifactCallIds == 1 .. MaxRequests

\* Display filenames: one without a genre word, one with two genre words
\* (the first capitalised), one that is mapped to another genre.
ArtifactNames == { <<"song", ".", "mp3">>, <<"Rock", "pop", ".", "mp3">>, <<"blues">> }

\* Declared content types: the five of the allow-list and one other.
MimeTypes ==
  { "audio/mpeg", "audio/mp3", "audio/wav", "audio/wave", "audio/x-wav", "audio/ogg" }

\* A file filter that takes every audio type.
AcceptedTypesAnyAudio == MimeTypes

\* acceptedTypes of the multer fileFilter.
AcceptedTypes == { "audio/mpeg", "audio/mp3", "audio/wav", "audio/wave", "audio/x-wav" }

InitArtifacts ==
  /\ audioFiles = << >>
  /\ transformations = << >>
  /\ fs = << >>
  /\ calls = [c \in ArtifactCallIds |-> IdleCall]
  /\ now = 1

EndedRequests == { d \in ArtifactCallIds : calls[d].pc = "done" }
NextSlot(c) ==
  calls[c].pc = "idle" /\ \A d \in ArtifactCallIds : d < c => calls[d].pc # "idle"

\* The file of an upload against limits.fileSize, 15 MB.
FileSizes == { "within", "over" }

\* The uploads multer has written a file for.
Written == { d \in DOMAIN calls : calls[d].op = "upload" /\ calls[d].input # NoPath }

\* POST /api/uploads, the middleware upload.single: the fileFilter refuses
\* the file, or the file passes the size limit while it is written (multer
\* removes what it wrote); in both cases multer hands the error on, nothing
\* is stored and the handler does not run. Otherwise multer writes the file
\* and hands the request to the handler, which runs up to its await of
\* storeAudioFile.
UploadFile(c, filename, mimetype, size) ==
  /\ NextSlot(c)
  /\ LET call == [ IdleCall EXCEPT !.op = "upload", !.mimetype = mimetype,
                     !.filename = filename, !.before = EndedRequests ]
         path == UploadPath(c, filename)
     IN
     IF mimetype \notin AcceptedTypes
     THEN /\ calls' = [calls EXCEPT ![c] =
               [call EXCEPT !.pc = "done", !.http = 500, !.result = "rejected"]]
          /\ fs' = fs
     ELSE IF size = "over"
     THEN /\ calls' = [calls EXCEPT ![c] =
               [call EXCEPT !.pc = "done", !.http = 500, !.result = "toolarge"]]
          /\ fs' = fs
     ELSE /\ Cardinality(Written) < MaxArtifacts
          /\ fs' = WriteFile(path, UploadBytes(c))
          /\ calls' = [calls EXCEPT ![c] =
               [call EXCEPT !.pc = "u_store", !.input = path]]
  /\ UNCHANGED <<audioFiles, transformations, now>>

\* The request carries no file: if (!req.file), 400 'No file uploaded'.
UploadNoFile(c) ==
  /\ NextSlot(c)
  /\ calls' = [calls EXCEPT ![c] =
       [ IdleCall EXCEPT !.op = "upload", !.pc = "done", !.http = 400,
           !.result = "nofile", !.before = EndedRequests ]]
  /\ UNCHANGED <<audioFiles, transformations, fs, now>>

\* String.toLowerCase on the tokens of a name.
Lower(t) == IF t = "Rock" THEN "rock" ELSE t
\* filename.toLowerCase().includes(word), for words that are whole tokens.
Includes(filename, word) == \E i \in 1 .. Len(filename) : Lower(filename[i]) = word

\* A detection that compares without toLowerCase.
DetectGenreCaseSensitive(filename) ==
  LET Has(word) == \E i \in 1 .. Len(filename) : filename[i] = word IN
  IF Has("rock") THEN "rock"
  ELSE IF Has("pop") THEN "pop"
  ELSE IF Has("jazz") THEN "jazz"
  ELSE IF Has("classical") THEN "classical"
  ELSE IF Has("electronic") THEN "electronic"
  ELSE IF Has("hiphop") \/ Has("hip-hop") \/ Has("hip_hop") THEN "hiphop"
  ELSE IF Has("reggae") THEN "reggae"
  ELSE IF Has("country") THEN "country"
  ELSE IF Has("blues") THEN "jazz"
  ELSE NULL

\* Lines 101-116: the if / else-if chain over the lower-cased filename.
DetectGenre(filename) ==
  IF Includes(filename, "rock") THEN "rock"
  ELSE IF Includes(filename, "pop") THEN "pop"
  ELSE IF Includes(filename, "jazz") THEN "jazz"
  ELSE IF Includes(filename, "classical") THEN "classical"
  ELSE IF Includes(filename, "electronic") THEN "electronic"
  ELSE IF \/ Includes(filename, "hiphop") \/ Includes(filename, "hip-hop")
          \/ Includes(filename, "hip_hop") THEN "hiphop"
  ELSE IF Includes(filename, "reggae") THEN "reggae"
  ELSE IF Includes(filename, "country") THEN "country"
  ELSE IF Includes(filename, "blues") THEN "jazz"
  ELSE NULL

\* GET /api/uploads/:id arrives.
StartRead(c, id) ==
  /\ NextSlot(c)
  /\ calls' = [calls EXCEPT ![c] =
       [ IdleCall EXCEPT !.op = "read", !.fileId = id, !.pc = "r_get",
           !.before = EndedRequests ]]
  /\ UNCHANGED <<audioFiles, transformations, fs, now>>

\* Lines 93-116: the row is read; with no stored genre the filename decides,
\* and a detected genre goes on to the update.
ReadGet(c) ==
  /\ calls[c].pc = "r_get"
  /\ LET audioFile == getAudioFileById(calls[c].fileId) IN
     calls' = [calls EXCEPT ![c] =
       IF audioFile = NoAudioFile
       THEN [@ EXCEPT !.pc = "done", !.http = 404, !.result = "notfound"]
       ELSE IF audioFile.detectedGenre # NULL
       THEN [@ EXCEPT !.pc = "done", !.http = 200, !.result = "ok",
                      !.detectedGenre = audioFile.detectedGenre]
       ELSE IF DetectGenre(audioFile.filename) # NULL
       THEN [@ EXCEPT !.pc = "r_update",
                      !.detectedGenre = DetectGenre(audioFile.filename)]
       ELSE [@ EXCEPT !.pc = "done", !.http = 200, !.result = "ok"]]
  /\ UNCHANGED <<audioFiles, transformations, fs, now>>

\* Lines 119-124 and 127-134: the update of detected_genre, then the answer.
ReadUpdate(c) ==
  /\ calls[c].pc = "r_update"
  /\ audioFiles' = [audioFiles EXCEPT
       ![calls[c].fileId].detectedGenre = calls[c].detectedGenre]
  /\ calls' = [calls EXCEPT ![c] =
       [@ EXCEPT !.pc = "done", !.http = 200, !.result = "ok", !.writes = @ + 1]]
  /\ UNCHANGED <<transformations, fs, now>>

NextArtifacts ==
  \/ \E c \in ArtifactCallIds, f \in ArtifactNames, m \in MimeTypes, z \in FileSizes :
       UploadFile(c, f, m, z)
  \/ \E c \in ArtifactCallIds : UploadNoFile(c)
  \/ \E c \in ArtifactCallIds : StoreAudioFile(c)
  \/ \E c \in ArtifactCallIds, id \in FileIds : StartRead(c, id)
  \/ \E c \in ArtifactCallIds : ReadGet(c)
  \/ \E c \in ArtifactCallIds : ReadUpdate(c)

\* The artifact routes of the server.
SpecArtifacts == InitArtifacts /\ [][NextArtifacts]_vars

NextArtifactsWithFailures ==
  \/ NextArtifacts
  \/ \E c \in ArtifactCallIds : StoreAudioFileFails(c)

\* The artifact routes in an environment where the insert of an upload can throw.
SpecArtifactsStorageFailure == InitArtifacts /\ [][NextArtifactsWithFailures]_vars

\* ------------------------------------------------------------------ claims
IsGen(c) == calls[c].op \in { "gen", "stream", "download" }
\* The request has ended or, for the stream and download handlers,
\* generateTempTransformedFile has returned its path to the handler.
Returned(c) == calls[c].pc \in { "done", "s_open" }
\* The bytes uploaded for artifact id: multer's unique suffix names them.
ArtifactBytes(id) == <<"upload", "none", audioFiles[id].originalPath[3]>>
RowOf(r) == transformations[r]

\* The rows that make a cache hit for (a, g): same artifact, same genre,
\* completed, output path set.
HitRows(a, g) ==
  { r \in DOMAIN transformations :
      /\ RowOf(r).audioFileId = a
      /\ RowOf(r).targetGenre = g
      /\ RowOf(r).status = "completed"
      /\ RowOf(r).transformedPath # NoPath }

\* C1 (cache hit): when the lookup of generateTempTransformedFile runs for
\* (artifact, genre) and the ledger holds a completed row of that pair with an
\* output path, the call returns such a row's path, runs ffmpeg zero times and
\* inserts no row; with no such row (rows of other status, artifact or genre
\* only) the call takes the miss path.
C1_LookupStep(c) ==
  (calls[c].pc = "g_lookup" /\ calls'[c].pc # "g_lookup") =>
    LET m == HitRows(calls[c].fileId, calls[c].genre) IN
    IF m # {}
    THEN /\ calls'[c].pc \in { "done", "s_open" }
         /\ calls'[c].result = "ok" /\ calls'[c].hit
         /\ calls'[c].ret \in { RowOf(r).transformedPath : r \in m }
         /\ calls'[c].execs = 0 /\ calls'[c].inserts = 0
         /\ transformations' = transformations /\ fs' = fs
    ELSE /\ calls'[c].pc = "g_create" /\ ~calls'[c].hit

C1_HitState(c) ==
  calls[c].hit =>
    /\ calls[c].execs = 0 /\ calls[c].inserts = 0 /\ calls[c].row = 0
    /\ calls[c].hitRow \in HitRows(calls[c].fileId, calls[c].genre)
    /\ calls[c].ret = RowOf(calls[c].hitRow).transformedPath

C1_CacheHit ==
  /\ [](\A c \in CallIds : C1_HitState(c))
  /\ [][\A c \in CallIds : C1_LookupStep(c)]_vars

\* A request that hit the cache and returned the path of the completed row
\* another request had produced with ffmpeg.
C1_Witness ==
  \E c, d \in CallIds :
    /\ Returned(c) /\ calls[c].hit /\ calls[c].result = "ok"
    /\ calls[d].row = calls[c].hitRow /\ calls[d].execs = 1
    /\ calls[c].ret = RowOf(calls[c].hitRow).transformedPath

\* C2 (sequential idempotence): of two generateTempTransformedFile calls for
\* the same existing artifact and genre (a genre the handler lets through),
\* the second started after the first ended, both return normally with the same output path, each rests on a
\* completed row, and the second runs ffmpeg zero times.
RestsOnCompleted(c) ==
  IF calls[c].hit
  THEN RowOf(calls[c].hitRow).status = "completed"
  ELSE /\ calls[c].row \in DOMAIN transformations
       /\ RowOf(calls[c].row).status = "completed"
       /\ RowOf(calls[c].row).transformedPath = calls[c].ret

C2_SequentialIdempotence ==
  \A c, d \in CallIds :
    ( /\ IsGen(c) /\ IsGen(d) /\ Returned(c) /\ Returned(d)
      /\ c \in calls[d].before
      /\ calls[c].fileId = calls[d].fileId /\ calls[c].genre = calls[d].genre
      /\ calls[c].result \notin { "notfound", "invalid" }
      /\ calls[d].result # "invalid" )
    => /\ calls[c].result = "ok" /\ calls[d].result = "ok"
       /\ RestsOnCompleted(c) /\ RestsOnCompleted(d)
       /\ calls[c].ret = calls[d].ret /\ calls[c].ret # NoPath
       /\ calls[d].execs = 0

\* Two such calls, the first of which ran ffmpeg.
C2_Witness ==
  \E c, d \in CallIds :
    /\ IsGen(c) /\ IsGen(d) /\ Returned(c) /\ Returned(d)
    /\ c \in calls[d].before
    /\ calls[c].fileId = calls[d].fileId /\ calls[c].genre = calls[d].genre
    /\ calls[c].execs = 1 /\ calls[d].result = "ok"

\* C3 (NotFound): a request naming an id that is not in audio_files ends
\* with NotFound (404 from the handlers, the thrown error from
\* generateTempTransformedFile) in the step that checks it, which leaves the
\* ledger and the files unchanged; such a call has inserted no row and run no
\* ffmpeg.
C3_CheckStep(c) ==
  ( /\ calls[c].pc \in { "h_get", "g_get" }
    /\ calls'[c].pc # calls[c].pc
    /\ calls[c].fileId \notin DOMAIN audioFiles )
  => /\ calls'[c].pc = "done" /\ calls'[c].result = "notfound"
     /\ calls[c].pc = "h_get" => calls'[c].http = 404
     /\ transformations' = transformations /\ fs' = fs

C3_NotFoundState(c) ==
  calls[c].result = "notfound" =>
    /\ calls[c].inserts = 0 /\ calls[c].execs = 0 /\ calls[c].row = 0
    /\ \A r \in DOMAIN transformations : RowOf(r).audioFileId \in DOMAIN audioFiles

C3_NotFound ==
  /\ [](\A c \in CallIds : C3_NotFoundState(c))
  /\ [][\A c \in CallIds : C3_CheckStep(c)]_vars

\* A direct call threw NotFound and the POST handler answered 404.
C3_Witness ==
  /\ \E c \in CallIds : calls[c].op = "gen" /\ calls[c].result = "notfound"
  /\ \E c \in CallIds : calls[c].op = "post" /\ calls[c].http = 404

\* The artifact a call names, once uploaded: its source file and output path.
SrcPath(c) == audioFiles[calls[c].fileId].originalPath
DstPath(c) == TransformedFilePath(audioFiles[calls[c].fileId].filename, calls[c].genre)
RowCompleted(c) ==
  /\ calls[c].row \in DOMAIN transformations
  /\ RowOf(calls[c].row).status = "completed"
  /\ RowOf(calls[c].row).transformedPath = DstPath(c)

\* c ends in this step.
Ends(c) == ~Returned(c) /\ calls'[c].pc \in { "done", "s_open" }
\* c runs ffmpeg in this step, and ffmpeg throws in it.
RunsFfmpeg(c) == calls'[c].execs = calls[c].execs + 1
FfmpegThrows(c) == calls'[c].copies = calls[c].copies + 1

\* C4 as claimed (fallback copy): when ffmpeg failed for a request, the
\* request ends completed, without error, and at that moment the file at its
\* output path is byte-identical to the artifact's source file.
C4_FallbackAtEnd ==
  [][\A c \in CallIds :
      (Ends(c) /\ calls[c].copies = 1) =>
        /\ calls'[c].result = "ok"
        /\ RowCompleted(c)'
        /\ Exists(DstPath(c))'
        /\ fs'[DstPath(c)] = fs'[SrcPath(c)]]_vars

\* No request that overlaps c in time has written c's output path.
NoOverlappingWriter(c) ==
  \A d \in CallIds \ {c} :
    (calls[d].execs >= 1 /\ d \notin calls[c].before) => calls[d].path # DstPath(c)

\* C4 as amended: when ffmpeg fails, the step that ran it leaves a
\* byte-identical copy of the source at the output path; the request ends
\* completed and without error; and the copy is still there at that end
\* unless an overlapping request wrote the same output path.
C4_FallbackCopy ==
  /\ [][\A c \in CallIds :
        FfmpegThrows(c) =>
          /\ RunsFfmpeg(c)
          /\ Exists(DstPath(c))'
          /\ fs'[DstPath(c)] = fs[SrcPath(c)]
          /\ fs'[SrcPath(c)] = fs[SrcPath(c)]]_vars
  /\ [][\A c \in CallIds :
        (Ends(c) /\ calls[c].copies = 1) =>
          /\ calls'[c].result = "ok"
          /\ RowCompleted(c)'
          /\ NoOverlappingWriter(c) =>
                (Exists(DstPath(c))' /\ fs'[DstPath(c)] = fs'[SrcPath(c)])]_vars

\* A request whose ffmpeg run failed has ended, completed, with the copy in place.
C4_Witness ==
  \E c \in CallIds :
    /\ Returned(c) /\ calls[c].copies = 1 /\ calls[c].result = "ok"
    /\ RowCompleted(c)
    /\ fs[DstPath(c)] = ArtifactBytes(calls[c].fileId)

RecognizedGenres ==
  { "rock", "pop", "jazz", "classical", "electronic", "hiphop", "reggae", "country" }

\* C5 (unknown genre): for a genre outside the eight identifiers, spelled
\* exactly, a successful ffmpeg run of processTransformation and of
\* generateTempTransformedFile applies the default filter to the source, and
\* the request of an existing artifact that reaches one of the two ends
\* normally on a completed row.
C5_UnknownGenre ==
  /\ [][\A c \in CallIds :
        ( /\ calls[c].genre \notin RecognizedGenres
          /\ RunsFfmpeg(c) /\ ~FfmpegThrows(c) ) =>
          /\ Exists(DstPath(c))'
          /\ fs'[DstPath(c)] = <<"ffmpeg", "default", ArtifactBytes(calls[c].fileId)[3]>>]_vars
  /\ [](\A c \in CallIds :
        ( /\ Returned(c) /\ calls[c].genre \notin RecognizedGenres
          /\ calls[c].result \notin { "notfound", "invalid" } ) =>
          /\ calls[c].result = "ok"
          /\ IF calls[c].hit
             THEN RowOf(calls[c].hitRow).status = "completed"
             ELSE RowCompleted(c))

\* Both entry points have run ffmpeg with success for a genre that is not
\* recognised, one of them for the capitalised "Rock".
C5_Witness ==
  /\ \E c \in CallIds :
       /\ IsGen(c) /\ Returned(c) /\ calls[c].genre = "Rock"
       /\ calls[c].execs = 1 /\ calls[c].copies = 0
  /\ \E c \in CallIds :
       /\ calls[c].op = "post" /\ Returned(c) /\ calls[c].genre \notin RecognizedGenres
       /\ calls[c].execs = 1 /\ calls[c].copies = 0

\* The caller of c has its answer.
Responded(c) == IF IsGen(c) THEN Returned(c) ELSE calls[c].http # 0

\* C6 as claimed: whenever the caller of a request that inserted a row has
\* its answer, that row is completed or failed.
C6_AnswerIsFinal ==
  \A c \in CallIds :
    (Responded(c) /\ calls[c].row # 0) =>
      RowOf(calls[c].row).status \in { "completed", "failed" }

\* C6 as amended: generateTempTransformedFile returns on a miss only after
\* its row is completed; POST /api/transformations answers 201 with the row
\* as inserted, status pending, and processTransformation runs after that.
C6_AnswerStatus ==
  \A c \in CallIds :
    /\ (IsGen(c) /\ Returned(c) /\ calls[c].row # 0) =>
         (calls[c].result = "ok" /\ RowCompleted(c))
    /\ (calls[c].op = "post" /\ calls[c].http = 201) =>
         (calls[c].respStatus = "pending" /\ calls[c].row \in DOMAIN transformations)
    /\ (calls[c].op = "post" /\ calls[c].pc \in { "h_get", "p_create" }) =>
         calls[c].http = 0

\* A generateTempTransformedFile call back from a miss, and a POST answered
\* while its row is processing.
C6_Witness ==
  /\ \E c \in CallIds : IsGen(c) /\ Returned(c) /\ calls[c].row # 0
  /\ \E c \in CallIds :
       /\ calls[c].op = "post" /\ calls[c].http = 201
       /\ RowOf(calls[c].row).status = "processing"

Terminal == { "completed", "failed" }

\* C7 (lifecycle order): a row is inserted pending, and a row that becomes
\* completed or failed was processing just before.
C7_LifecycleOrder ==
  [][\A r \in DOMAIN transformations' :
      IF r \notin DOMAIN transformations
      THEN transformations'[r].status = "pending"
      ELSE (transformations'[r].status \in Terminal
              /\ RowOf(r).status \notin Terminal)
           => RowOf(r).status = "processing"]_vars

\* C8 (terminal states are final): no step changes the status, output path or
\* completion timestamp of a row that is completed or failed.
C8_TerminalFinal ==
  [][\A r \in DOMAIN transformations :
      RowOf(r).status \in Terminal =>
        /\ r \in DOMAIN transformations'
        /\ transformations'[r].status = RowOf(r).status
        /\ transformations'[r].transformedPath = RowOf(r).transformedPath
        /\ transformations'[r].completedAt = RowOf(r).completedAt]_vars

\* A request left its row failed and ended; a request that started after that
\* end, for the same artifact, took its own row to completed.
C8_Witness ==
  \E c, d \in CallIds :
    /\ Returned(c) /\ c \in calls[d].before
    /\ calls[c].row # 0 /\ RowOf(calls[c].row).status = "failed"
    /\ calls[d].row # 0 /\ RowOf(calls[d].row).status = "completed"
    /\ calls[c].fileId = calls[d].fileId

\* C9: a row has an output path exactly when it is completed, and a
\* completion timestamp exactly when it is completed.
C9_PathIffCompleted ==
  \A r \in DOMAIN transformations :
    /\ (RowOf(r).transformedPath # NoPath) <=> (RowOf(r).status = "completed")
    /\ (RowOf(r).completedAt # NoDate) <=> (RowOf(r).status = "completed")

\* The ledger holds a completed row and a failed row.
C9_Witness ==
  \E r1, r2 \in DOMAIN transformations :
    /\ RowOf(r1).status = "completed" /\ RowOf(r1).transformedPath # NoPath
    /\ RowOf(r2).status = "failed"

\* C10: a generateTempTransformedFile call that misses has inserted exactly
\* one row once its insert is done and runs ffmpeg at most once; a hit and a
\* NotFound insert nothing and run nothing. The ledger holds exactly the rows
\* the calls inserted.
C10_OneRowPerMiss ==
  /\ \A c \in CallIds :
       IsGen(c) =>
         /\ calls[c].execs <= 1 /\ calls[c].inserts <= 1
         /\ (calls[c].hit \/ calls[c].result = "notfound") =>
              (calls[c].inserts = 0 /\ calls[c].execs = 0 /\ calls[c].row = 0)
         /\ ( \/ calls[c].pc \in { "g_exec", "g_update" }
              \/ (Returned(c) /\ ~calls[c].hit /\ calls[c].result = "ok") ) =>
              (calls[c].inserts = 1 /\ calls[c].row \in DOMAIN transformations)
         /\ calls[c].pc \in { "g_get", "g_lookup", "g_create" } =>
              (calls[c].inserts = 0 /\ calls[c].execs = 0)
  /\ Len(transformations) = Cardinality({ c \in CallIds : calls[c].row # 0 })
  /\ \A c, d \in CallIds :
       (c # d /\ calls[c].row # 0) => calls[c].row # calls[d].row

\* One call returned from a miss with its one row and one ffmpeg run, and a
\* later call of the same pair returned from a hit.
C10_Witness ==
  \E c, d \in CallIds :
    /\ IsGen(c) /\ Returned(c) /\ calls[c].inserts = 1 /\ calls[c].execs = 1
    /\ IsGen(d) /\ Returned(d) /\ calls[d].hit /\ calls[d].hitRow = calls[c].row

\* The completed row with an output path that an earlier, ended call d left
\* for the pair that c asks for: it was in the ledger when c arrived.
LeftHitRowFor(d, c) ==
  /\ d \in calls[c].before
  /\ calls[d].row # 0
  /\ calls[d].row \in HitRows(calls[c].fileId, calls[c].genre)

\* C11 (POST consults the ledger first): a POST /api/transformations that
\* arrives when the ledger already holds a completed row with an output
\* path for its (artifact, genre) inserts no row and runs no ffmpeg.
C11_PostConsultsLedger ==
  \A c, d \in CallIds :
    (calls[c].op = "post" /\ LeftHitRowFor(d, c)) =>
      (calls[c].inserts = 0 /\ calls[c].execs = 0)

\* Two generateTempTransformedFile calls for the same (artifact, genre) that
\* overlap in time and have both missed the cache.
Overlap(c, d) == c # d /\ c \notin calls[d].before /\ d \notin calls[c].before
GenMissed(c) ==
  /\ IsGen(c) /\ ~calls[c].hit
  /\ calls[c].pc \in { "g_create", "g_exec", "g_update", "s_open", "done" }
  /\ calls[c].result \notin { "notfound", "invalid" }
SameKeyRace(c, d) ==
  /\ Overlap(c, d) /\ GenMissed(c) /\ GenMissed(d)
  /\ calls[c].fileId = calls[d].fileId /\ calls[c].genre = calls[d].genre

\* C12 (same-key race): two overlapping calls of the same pair that both
\* missed have, at their end, each inserted a row and each run ffmpeg on the
\* same output path.
C12_BothInvoke ==
  \A c, d \in CallIds :
    (SameKeyRace(c, d) /\ Returned(c) /\ Returned(d)) =>
      /\ calls[c].inserts = 1 /\ calls[d].inserts = 1
      /\ calls[c].execs = 1 /\ calls[d].execs = 1
      /\ calls[c].path = calls[d].path

\* What the caller of c sees of a storage failure: the thrown error of a
\* direct call, status 500 from a handler.
FailureSurfaced(c) ==
  IF calls[c].op = "gen" THEN calls[c].result = "error" ELSE calls[c].http = 500

\* C13 (StorageFailure): a request that has inserted its row and then ended
\* on a storage failure (the fallback copy or a ledger write threw) has
\* surfaced the error to its caller and left its row with status failed, in
\* processTransformation and in generateTempTransformedFile alike.
C13_StorageFailureMarksFailed ==
  \A c \in CallIds :
    (Returned(c) /\ calls[c].result = "error" /\ calls[c].row # 0) =>
      /\ FailureSurfaced(c)
      /\ RowOf(calls[c].row).status = "failed"

\* C14 (empty genre): a request through a handler (create-transformation,
\* stream, download) whose target genre is the empty string is rejected as
\* invalid input: the answer is never a success (200, 201), no row is
\* inserted for it, ffmpeg is not run for it.
C14_EmptyGenreRejected ==
  \A c \in CallIds :
    (calls[c].op \in { "post", "stream", "download" } /\ calls[c].genre = "") =>
      /\ calls[c].inserts = 0 /\ calls[c].execs = 0
      /\ calls[c].http \notin { 200, 201 }

IsConvert(c) == calls[c].op = "convert"
UnknownGenres == Genres \ RecognizedGenres

\* C15 as claimed (convert, unknown genre): a POST /api/convert of a stored
\* file with a genre outside the eight identifiers is accepted: ffmpeg runs
\* with the default filter and the answer is a success.
C15_ConvertDefaultsUnknownGenre ==
  \A c \in CallIds :
    (IsConvert(c) /\ calls[c].genre \in UnknownGenres /\ calls[c].result # "notfound") =>
      (calls[c].execs = 1 /\ calls[c].http = 200)

\* C15 as amended: a POST /api/convert of a stored file with a genre outside
\* the eight identifiers is answered 400 in the step that handles it: ffmpeg
\* is not run, no file is written or removed, and nothing exists at the
\* output path of such a request.
C15_ConvertRejectsUnknownGenre ==
  /\ [](\A c \in CallIds :
         (IsConvert(c) /\ calls[c].genre \in UnknownGenres) =>
           /\ Returned(c) /\ calls[c].execs = 0
           /\ \/ calls[c].http = 404 /\ calls[c].result = "notfound"
              \/ calls[c].http = 400 /\ calls[c].result = "invalid"
                   /\ ~Exists(calls[c].path))
  /\ [][\A c \in CallIds, f \in StoredNames, g \in UnknownGenres,
          o \in FfmpegOutcomes :
        (Convert(c, f, g, o) /\ Exists(<<"uploads", "/">> \o f)) =>
          (calls'[c].http = 400 /\ calls'[c].execs = 0 /\ fs' = fs)]_vars

\* A convert request for "Rock" was answered 400 and its source is in place.
C15_Witness ==
  \E c \in CallIds :
    /\ IsConvert(c) /\ calls[c].genre = "Rock" /\ calls[c].http = 400
    /\ Exists(calls[c].input) /\ calls[c].execs = 0

\* C16 as claimed (convert, ffmpeg failure): when ffmpeg fails in POST
\* /api/convert the request is answered as a success and a copy of the
\* source is at the output path.
C16_ConvertFailureMasked ==
  [][\A c \in CallIds, f \in StoredNames, g \in Genres :
      (Convert(c, f, g, "fail") /\ calls'[c].execs = 1) =>
        /\ calls'[c].http # 500 /\ calls'[c].pc = "c_stream"
        /\ calls'[c].path \in DOMAIN fs'
        /\ fs'[calls'[c].path] = fs[calls'[c].input]]_vars

\* C16 as amended: when ffmpeg fails in POST /api/convert the request is
\* answered 500 and ends there: nothing is copied, no file is written or
\* removed, the source stays in place.
C16_ConvertFailureSurfaced ==
  /\ [][\A c \in CallIds, f \in StoredNames, g \in Genres :
        (Convert(c, f, g, "fail") /\ calls'[c].execs = 1) =>
          /\ calls'[c].http = 500 /\ calls'[c].pc = "done"
          /\ calls'[c].result = "error"
          /\ fs' = fs /\ calls'[c].input \in DOMAIN fs']_vars
  /\ [](\A c \in CallIds :
         (IsConvert(c) /\ calls[c].http = 500) =>
           (Returned(c) /\ calls[c].execs = 1 /\ calls[c].ret = NoPath))

\* A convert request was answered 500 after its one ffmpeg run; its source
\* is in place and nothing is at its output path.
C16_Witness ==
  \E c \in CallIds :
    /\ IsConvert(c) /\ calls[c].http = 500 /\ calls[c].execs = 1
    /\ Exists(calls[c].input) /\ ~Exists(calls[c].path)

\* C17 (execute on every miss): a row that generateTempTransformedFile
\* inserted on a miss is completed only after the call has run ffmpeg (or the
\* fallback copy) for it; a file that is already at the output path does
\* not stand in for that run.
C17_MissAlwaysExecutes ==
  \A c \in CallIds :
    ( /\ IsGen(c) /\ calls[c].row # 0
      /\ RowOf(calls[c].row).status = "completed" ) =>
      calls[c].execs = 1

\* C18 (completed rows have their file): every completed row has an output
\* path and a file exists at that path, whatever ffmpeg did: exit 0 with the
\* output, a throw (fallback copy), or exit 0 with no output file.
C18_CompletedHasFile ==
  \A r \in DOMAIN transformations :
    RowOf(r).status = "completed" =>
      (RowOf(r).transformedPath # NoPath /\ Exists(RowOf(r).transformedPath))

\* <basename>_<genre><ext> inside the transformations directory, written out
\* for the display filenames of this model: "song.mp3" and "demo".
ExpectedOutputPath(filename, genre) ==
  IF filename = <<"song", ".", "mp3">>
  THEN <<"transformations", "/", "song", "_", genre, ".", "mp3">>
  ELSE <<"transformations", "/", "demo", "_", genre>>

\* The output path a request has computed, in either function.
HasPath(c) == calls[c].op \in Ops /\ calls[c].path # NoPath

\* C19 (output path): the output path either function computes for a request
\* is <basename>_<genre><ext> of the artifact's display filename and the
\* target genre, so processTransformation and generateTempTransformedFile
\* compute the same path for the same (artifact, genre); the path stored in a
\* completed row is that value.
C19_OutputPath ==
  /\ \A c \in CallIds :
       HasPath(c) =>
         calls[c].path =
           ExpectedOutputPath(audioFiles[calls[c].fileId].filename, calls[c].genre)
  /\ \A c, d \in CallIds :
       ( /\ HasPath(c) /\ HasPath(d)
         /\ calls[c].fileId = calls[d].fileId /\ calls[c].genre = calls[d].genre )
       => calls[c].path = calls[d].path
  /\ \A r \in DOMAIN transformations :
       RowOf(r).status = "completed" =>
         RowOf(r).transformedPath =
           ExpectedOutputPath(audioFiles[RowOf(r).audioFileId].filename,
                              RowOf(r).targetGenre)

\* processTransformation and generateTempTransformedFile have each completed
\* a row for the same pair of an artifact named song.mp3, with the same path.
C19_Witness ==
  \E c, d \in CallIds :
    /\ calls[c].op = "post" /\ IsGen(d) /\ ~calls[d].hit
    /\ calls[c].fileId = calls[d].fileId /\ calls[c].genre = calls[d].genre
    /\ RowCompleted(c) /\ RowCompleted(d)
    /\ audioFiles[calls[c].fileId].filename = <<"song", ".", "mp3">>
    /\ RowOf(calls[c].row).transformedPath = RowOf(calls[d].row).transformedPath
    /\ RowOf(calls[c].row).transformedPath =
         <<"transformations", "/", "song", "_", calls[c].genre, ".", "mp3">>

\* C20 (liveness): every row that is created is eventually completed or
\* failed, also when the fallback copy or a ledger write fails; ffmpeg
\* always returns.
C20_RowsTerminate ==
  \A r \in 1 .. MaxCalls :
    (r \in DOMAIN transformations) ~>
      (r \in DOMAIN transformations /\ RowOf(r).status \in Terminal)

\* C21 (artifacts untouched): in every state the source file of every
\* artifact exists; no step changes or removes an artifact row or the bytes
\* of its source file; and a step of a transformation request (one that
\* changes a request or the ledger) adds no artifact row.
C21_ArtifactsUntouched ==
  /\ [](\A a \in DOMAIN audioFiles : Exists(audioFiles[a].originalPath))
  /\ [][/\ \A a \in DOMAIN audioFiles :
             /\ a \in DOMAIN audioFiles' /\ audioFiles'[a] = audioFiles[a]
             /\ audioFiles[a].originalPath \in DOMAIN fs'
             /\ fs'[audioFiles[a].originalPath] = fs[audioFiles[a].originalPath]
         /\ ((\E c \in CallIds : calls'[c] # calls[c])
               \/ transformations' # transformations) =>
              audioFiles' = audioFiles]_vars

\* A request whose ffmpeg run threw has ended on the fallback copy, and the
\* artifact row and the uploaded bytes are as the upload left them.
C21_Witness ==
  \E c \in CallIds :
    /\ Returned(c) /\ calls[c].copies = 1 /\ RowCompleted(c)
    /\ \E u \in UploadIds :
         /\ calls[u].fileId = calls[c].fileId
         /\ audioFiles[calls[c].fileId].originalPath = calls[u].input
    /\ fs[SrcPath(c)] = ArtifactBytes(calls[c].fileId)

\* C22 as claimed (convert keeps the source): the uploaded file a POST
\* /api/convert has transformed exists ever after, also once the response
\* has been streamed.
C22_ConvertKeepsSource ==
  \A c \in CallIds :
    (IsConvert(c) /\ calls[c].execs = 1) => Exists(calls[c].input)

\* C22 as amended: when the response of a POST /api/convert has been
\* streamed the handler removes the uploaded source file (and, with it, the
\* output file), so a convert request for the same uploaded filename that
\* arrives after that is answered 404 and runs no ffmpeg.
C22_ConvertDeletesSource ==
  /\ [][\A c \in CallIds :
        (calls[c].pc = "c_read" /\ calls'[c].result = "ok") =>
          /\ calls[c].input \notin DOMAIN fs'
          /\ Exists(calls[c].input) => calls[c].path \notin DOMAIN fs']_vars
  /\ [](\A c, d \in CallIds :
         ( /\ IsConvert(c) /\ IsConvert(d) /\ c \in calls[d].before
           /\ calls[c].result = "ok" /\ calls[c].input = calls[d].input ) =>
           (calls[d].http = 404 /\ calls[d].execs = 0 /\ ~Exists(calls[d].input)))

\* A convert request was streamed to its end, and a second request for the
\* same uploaded filename, arrived after that, was answered 404.
C22_Witness ==
  \E c, d \in CallIds :
    /\ IsConvert(c) /\ IsConvert(d) /\ c \in calls[d].before
    /\ calls[c].result = "ok" /\ calls[c].execs = 1
    /\ calls[c].input = calls[d].input /\ calls[d].http = 404

IsUpload(c) == calls[c].op = "upload"
IsRead(c) == calls[c].op = "read"
AllowList == { "audio/mpeg", "audio/mp3", "audio/wav", "audio/wave", "audio/x-wav" }

\* C23 (content-type allow-list): the content type of every artifact row is
\* one of the five allowed; an upload that declares any other type is
\* refused, writes no file and leaves no row; an upload that declares one of
\* them is never refused for its type: once it has ended it is stored with
\* that type and answered 201, unless its file was over the size limit or
\* the insert threw; the rows are exactly those of the uploads answered 201.
C23_MimeAllowList ==
  /\ \A a \in DOMAIN audioFiles : audioFiles[a].mimeType \in AllowList
  /\ \A c \in ArtifactCallIds :
       (IsUpload(c) /\ calls[c].filename # << >>) =>
         IF calls[c].mimetype \in AllowList
         THEN /\ calls[c].result # "rejected"
              /\ calls[c].pc = "done" =>
                   \/ /\ calls[c].http = 201 /\ calls[c].fileId \in DOMAIN audioFiles
                      /\ audioFiles[calls[c].fileId].mimeType = calls[c].mimetype
                      /\ audioFiles[calls[c].fileId].originalPath = calls[c].input
                   \/ /\ calls[c].http = 500 /\ calls[c].fileId = 0
                      /\ calls[c].result \in { "toolarge", "error" }
         ELSE /\ calls[c].pc = "done" /\ calls[c].result = "rejected"
              /\ calls[c].http = 500 /\ calls[c].fileId = 0
              /\ calls[c].input = NoPath
  /\ Len(audioFiles) =
       Cardinality({ c \in ArtifactCallIds : IsUpload(c) /\ calls[c].http = 201 })

\* An upload declared audio/ogg was refused, one declared audio/x-wav is the
\* only artifact.
C23_Witness ==
  \E c, d \in ArtifactCallIds :
    /\ IsUpload(c) /\ calls[c].mimetype = "audio/ogg" /\ calls[c].result = "rejected"
    /\ IsUpload(d) /\ calls[d].mimetype = "audio/x-wav" /\ calls[d].http = 201
    /\ Len(audioFiles) = 1

\* The genre the filename of this model's artifacts gives: rock wins over pop,
\* blues is mapped to jazz, song.mp3 has none.
ExpectedGenre(filename) ==
  IF filename = <<"Rock", "pop", ".", "mp3">> THEN "rock"
  ELSE IF filename = <<"blues">> THEN "jazz"
  ELSE NULL

\* The step is the update of detected_genre by read c.
Writes(c) == calls'[c].writes # calls[c].writes

\* C25 as claimed (lazy genre detection): a read writes the detected genre
\* only when the stored value is unset at the time of the write and the
\* filename matches a genre; a read that arrives after a read has stored the
\* genre answers the same value and writes nothing; a read changes no other
\* attribute of the artifact.
C25_WritesOnlyWhenUnset ==
  /\ [](\A c, d \in ArtifactCallIds :
         ( /\ IsRead(c) /\ IsRead(d) /\ c \in calls[d].before
           /\ calls[c].fileId = calls[d].fileId
           /\ calls[c].http = 200 /\ calls[d].http = 200 ) =>
           /\ calls[d].detectedGenre = calls[c].detectedGenre
           /\ calls[c].detectedGenre # NULL => calls[d].writes = 0)
  /\ [][\A c \in ArtifactCallIds :
         Writes(c) =>
           /\ audioFiles[calls[c].fileId].detectedGenre = NULL
           /\ ExpectedGenre(audioFiles[calls[c].fileId].filename) # NULL
           /\ audioFiles'[calls[c].fileId] = [audioFiles[calls[c].fileId] EXCEPT
                 !.detectedGenre = audioFiles'[calls[c].fileId].detectedGenre]]_vars

\* C25 as amended: a read writes the detected genre only when the row it
\* read had none and the filename matches a genre; at the time of the write
\* the stored value is unset or is the same value, stored by a read that
\* overlaps this one; the stored value is the genre of the filename and never
\* changes once set; a read changes no other attribute; a read answers the
\* genre of the filename, and a read that arrives after a read has stored
\* the genre answers the same value and writes nothing.
C25_LazyDetectedGenre ==
  /\ [](\A a \in DOMAIN audioFiles :
         audioFiles[a].detectedGenre \in { NULL, ExpectedGenre(audioFiles[a].filename) })
  /\ [](\A c \in ArtifactCallIds :
         (IsRead(c) /\ calls[c].http = 200) =>
           /\ calls[c].detectedGenre = ExpectedGenre(audioFiles[calls[c].fileId].filename)
           /\ calls[c].writes <= 1
           /\ calls[c].writes = 1 => calls[c].detectedGenre # NULL)
  /\ [](\A c, d \in ArtifactCallIds :
         ( /\ IsRead(c) /\ IsRead(d) /\ c \in calls[d].before
           /\ calls[c].fileId = calls[d].fileId
           /\ calls[c].http = 200 /\ calls[d].http = 200 ) =>
           /\ calls[d].detectedGenre = calls[c].detectedGenre
           /\ calls[c].detectedGenre # NULL => calls[d].writes = 0)
  /\ [][\A c \in ArtifactCallIds :
         Writes(c) =>
           LET a == calls[c].fileId IN
           /\ ExpectedGenre(audioFiles[a].filename) # NULL
           /\ audioFiles'[a].detectedGenre = ExpectedGenre(audioFiles[a].filename)
           /\ \/ audioFiles[a].detectedGenre = NULL
              \/ /\ audioFiles[a].detectedGenre = audioFiles'[a].detectedGenre
                 /\ \E d \in ArtifactCallIds \ {c} :
                      /\ IsRead(d) /\ calls[d].fileId = a /\ calls[d].writes = 1
                      /\ d \notin calls[c].before /\ c \notin calls[d].before]_vars
  /\ [][\A a \in DOMAIN audioFiles :
         /\ a \in DOMAIN audioFiles'
         /\ audioFiles'[a] = [audioFiles[a] EXCEPT
                                !.detectedGenre = audioFiles'[a].detectedGenre]
         /\ audioFiles[a].detectedGenre # NULL =>
              audioFiles'[a].detectedGenre = audioFiles[a].detectedGenre
         /\ (\A c \in ArtifactCallIds : calls'[c].writes = calls[c].writes) =>
              audioFiles'[a] = audioFiles[a]]_vars

\* A read of "Rock pop.mp3" stored rock, and a read that arrived after it
\* answered rock without a write.
C25_Witness ==
  \E c, d \in ArtifactCallIds :
    /\ IsRead(c) /\ IsRead(d) /\ c \in calls[d].before
    /\ calls[c].fileId = calls[d].fileId
    /\ calls[c].writes = 1 /\ calls[c].detectedGenre = "rock"
    /\ calls[d].http = 200 /\ calls[d].writes = 0 /\ calls[d].detectedGenre = "rock"
    /\ audioFiles[calls[c].fileId].detectedGenre = "rock"

\* C24 (row identity): no step changes the artifact reference or the target
\* genre of a row or removes a row; every row references an artifact that
\* exists; and a step that changes a row changes the row of the request that
\* takes the step and no other row.
C24_RowIdentity ==
  /\ [](\A r \in DOMAIN transformations : RowOf(r).audioFileId \in DOMAIN audioFiles)
  /\ [][\A r \in DOMAIN transformations :
         /\ r \in DOMAIN transformations'
         /\ transformations'[r].audioFileId = RowOf(r).audioFileId
         /\ transformations'[r].targetGenre = RowOf(r).targetGenre
         /\ transformations'[r] # RowOf(r) =>
              /\ \E c \in CallIds : calls[c].row = r /\ calls'[c] # calls[c]
              /\ \A q \in DOMAIN transformations \ {r} :
                   transformations'[q] = RowOf(q)]_vars

\* Two requests of the same pair each have a row: one was updated to
\* completed while the other, still processing, kept its row as it was.
C24_Witness ==
  \E c, d \in CallIds :
    /\ c # d /\ calls[c].row # 0 /\ calls[d].row # 0
    /\ calls[c].fileId = calls[d].fileId /\ calls[c].genre = calls[d].genre
    /\ RowOf(calls[c].row).status = "completed"
    /\ RowOf(calls[d].row).status = "processing"
    /\ RowOf(calls[d].row).targetGenre = calls[d].genre
    /\ RowOf(calls[d].row).transformedPath = NoPath

\* The completed rows of a pair.
CompletedRows(a, g) ==
  { r \in DOMAIN transformations :
      /\ RowOf(r).audioFileId = a /\ RowOf(r).targetGenre = g
      /\ RowOf(r).status = "completed" }

\* Every request so far is a generateTempTransformedFile call (direct, stream
\* or download), and no two of them overlapped in time.
Started(c) == calls[c].pc # "idle"
GenOnly == \A c \in CallIds : Started(c) => IsGen(c)
Sequential ==
  \A c, d \in CallIds :
    (c # d /\ Started(c) /\ Started(d)) =>
      (c \in calls[d].before \/ d \in calls[c].before)

\* C26 (one completed row per pair): when generateTempTransformedFile is the
\* only operation that has created rows and its calls did not overlap, the
\* ledger holds at most one completed row for every (artifact, genre).
C26_OneCompletedPerPair ==
  (GenOnly /\ Sequential) =>
    \A a \in FileIds, g \in Genres : Cardinality(CompletedRows(a, g)) <= 1

\* Two calls of the same pair, one after the other, have ended: the first
\* completed its row, the second inserted none, the pair has one completed row.
C26_Witness ==
  /\ GenOnly /\ Sequential
  /\ \E c, d \in CallIds :
       /\ c \in calls[d].before /\ Returned(d)
       /\ calls[c].fileId = calls[d].fileId /\ calls[c].genre = calls[d].genre
       /\ calls[c].row # 0 /\ calls[d].row = 0 /\ calls[d].result = "ok"
       /\ CompletedRows(calls[c].fileId, calls[c].genre) = { calls[c].row }

\* C27 (one path per pair): all completed rows of the same artifact and
\* target genre carry the same output path, so a lookup that hits returns
\* that path whichever of them it picks.
C27_SamePathPerPair ==
  /\ [](\A r, q \in DOMAIN transformations :
         ( /\ RowOf(r).status = "completed" /\ RowOf(q).status = "completed"
           /\ RowOf(r).audioFileId = RowOf(q).audioFileId
           /\ RowOf(r).targetGenre = RowOf(q).targetGenre ) =>
           RowOf(r).transformedPath = RowOf(q).transformedPath)
  /\ [][\A c \in CallIds :
         (calls[c].pc = "g_lookup" /\ calls'[c].hit) =>
           \A r \in CompletedRows(calls[c].fileId, calls[c].genre) :
             calls'[c].ret = RowOf(r).transformedPath]_vars

\* The ledger holds two different completed rows of one pair, with one path.
C27_Witness ==
  /\ \E r, q \in DOMAIN transformations :
       /\ r # q
       /\ RowOf(r).status = "completed" /\ RowOf(q).status = "completed"
       /\ RowOf(r).audioFileId = RowOf(q).audioFileId
       /\ RowOf(r).targetGenre = RowOf(q).targetGenre
       /\ RowOf(r).transformedPath = RowOf(q).transformedPath
       /\ RowOf(r).transformedPath # NoPath

\* C28 (output provenance): the file at the output path of every completed
\* row was made from the row's own artifact: it is ffmpeg's output for that
\* artifact's source and the row's genre, or a copy of that source; also
\* when two artifacts have the same display filename.
C28_OutputProvenance ==
  \A r \in DOMAIN transformations :
    RowOf(r).status = "completed" =>
      /\ Exists(RowOf(r).transformedPath)
      /\ fs[RowOf(r).transformedPath] \in
           { FfmpegBytes(FfmpegFilter(RowOf(r).targetGenre),
                         ArtifactBytes(RowOf(r).audioFileId)),
             ArtifactBytes(RowOf(r).audioFileId) }

\* C29 (one ffmpeg run at a time): at most one request is inside its ffmpeg
\* run; while a request is inside it, the next step of the system is the
\* end of that run (with the fallback copy when ffmpeg threw) and changes
\* no other request, no ledger row and no artifact; in
\* generateTempTransformedFile the output path is still as absent at that
\* end as the existence test found it.
C29_OneFfmpegAtATime ==
  /\ [](Cardinality({ c \in CallIds : InFfmpeg(c) }) <= 1)
  /\ [](\A c \in CallIds : calls[c].pc = "g_ffmpeg" => ~Exists(calls[c].path))
  /\ [][\A c \in CallIds :
         InFfmpeg(c) =>
           /\ calls'[c].pc \in { "g_update", "p_update" }
           /\ calls[c].path \in DOMAIN fs'
           /\ \A d \in CallIds \ {c} : calls'[d] = calls[d]
           /\ transformations' = transformations /\ audioFiles' = audioFiles
           /\ \A q \in DOMAIN fs \ {calls[c].path} :
                q \in DOMAIN fs' /\ fs'[q] = fs[q]]_vars

\* A request is inside its ffmpeg run while another request of the same
\* pair waits at its own execution step.
C29_Witness ==
  \E c, d \in CallIds :
    /\ c # d /\ calls[c].pc = "g_ffmpeg"
    /\ calls[d].pc \in { "g_exec", "p_exec" }
    /\ calls[c].fileId = calls[d].fileId /\ calls[c].genre = calls[d].genre

====
